---- MODULE Spec2Model ----
(***************************************************************************)
(* Model of src/bot/bot.py: a Telegram bot (aiogram 3) that loads two      *)
(* configuration values at import time, registers one handler, cmd_start,  *)
(* for the /start command and runs the long-polling loop.                  *)
(*                                                                         *)
(* The module-level statements of bot.py run one after the other (ip is    *)
(* the index of the next one); asyncio.run(main()) then enters polling.    *)
(* While polling, every update is handled in its own asyncio task, so      *)
(* handler invocations interleave at their only await, the send call.      *)
(***************************************************************************)
EXTENDS Integers, Sequences, FiniteSets

\* ---------------------------------------------------------------- bounds
\* Number of updates delivered to the process during one run.
MaxUpdates == 2

\* ------------------------------------------------------- optional values
\* Python's None against a present value (os.getenv returns None or a str).
None == [some |-> FALSE, val |-> ""]
Some(v) == [some |-> TRUE, val |-> v]
NoSeq == [some |-> FALSE, val |-> <<>>]
SomeSeq(s) == [some |-> TRUE, val |-> s]

\* ---------------------------------------------------------------- inputs
\* Bot tokens as sequences of atoms "<digits>", ":", "<secret>".
ValidToken == <<"123", ":", "VALID">>
RevokedToken == <<"123", ":", "REVOKED">>
MalformedToken == <<"bad", " ", "token">>
DigitAtoms == {"123"}

\* What the process environment may hold for the two variables.
OsTokens == {NoSeq, SomeSeq(ValidToken), SomeSeq(RevokedToken), SomeSeq(MalformedToken)}
OsDomains == {None, Some(""), Some("https://example.com")}
\* What the .env file next to the package may hold: nothing, or both.
DotenvFiles ==
  { [TELEGRAM_BOT_TOKEN |-> NoSeq, VITE_FRONTEND_DOMAIN |-> None],
    [TELEGRAM_BOT_TOKEN |-> SomeSeq(ValidToken),
     VITE_FRONTEND_DOMAIN |-> Some("https://game.example")] }

\* Chats that write to the bot.
Chats == {12345, 777}
\* The bot's own username, as bot.me() reports it.
BotUsername == "me"

\* An update of the long-poll stream. Texts are sequences of atoms: "/" the
\* command prefix, "@" the mention separator, " " whitespace, the other
\* atoms are words.
Update(type, chat, text, caption) ==
  [type |-> type, chat |-> chat, text |-> text, caption |-> caption]

\* The updates delivered: messages with a text, a caption or neither, and
\* updates of other types that carry the text "/start".
Updates ==
  { Update("message", 12345, SomeSeq(<<"/", "start">>), NoSeq),
    Update("message", 12345, SomeSeq(<<"/", "start", "@", "ME">>), NoSeq),
    Update("message", 12345, SomeSeq(<<"/", "start", "@", "other">>), NoSeq),
    Update("message", 12345, SomeSeq(<<"/", "Start">>), NoSeq),
    Update("message", 12345, NoSeq, SomeSeq(<<"/", "start">>)),
    Update("message", 12345, NoSeq, NoSeq),
    Update("message", 777, SomeSeq(<<"/", "start">>), NoSeq),
    Update("message", 777, SomeSeq(<<"/", "start", " ", "arg">>), NoSeq),
    Update("message", 777, SomeSeq(<<"/", "help">>), NoSeq),
    Update("message", 777, SomeSeq(<<"start">>), NoSeq),
    Update("message", 777, SomeSeq(<<>>), SomeSeq(<<"/", "start">>)),
    Update("edited_message", 12345, SomeSeq(<<"/", "start">>), NoSeq),
    Update("channel_post", 777, SomeSeq(<<"/", "start">>), NoSeq) }

VARIABLES
  osEnv,            \* the process environment before startup
  dotenvFile,       \* the .env file
  environ,          \* os.environ
  ip,               \* index of the next module-level statement
  phase,            \* "not_started", "polling", "stopped"
  API_TOKEN,        \* module global, line 10
  FRONTEND_DOMAIN,  \* module global, line 11
  defined,          \* the module globals bound so far
  bot,              \* the token the Bot object was built with, line 13
  handlers,         \* handlers registered on dp
  updates,          \* updates received, each with its handler task's state
  sent              \* the send-message calls made, in order

vars == <<osEnv, dotenvFile, environ, ip, phase, API_TOKEN, FRONTEND_DOMAIN,
          defined, bot, handlers, updates, sent>>

config == <<API_TOKEN, FRONTEND_DOMAIN>>

\* ------------------------------------------------------- module statements
ModuleOrderLate == <<"Dispatcher", "register", "load_dotenv", "getenv", "Bot", "run">>

\* The module-level statements of bot.py in source order.
ModuleOrder == <<"load_dotenv", "getenv", "Bot", "Dispatcher", "register", "run">>

Stmt == IF ip <= Len(ModuleOrder) THEN ModuleOrder[ip] ELSE "end"

\* load_dotenv(dotenv_path=...): a variable of the file is set unless the
\* environment already has it (override defaults to False).
load_dotenv(env, file) ==
  [TELEGRAM_BOT_TOKEN |->
     IF env.TELEGRAM_BOT_TOKEN.some THEN env.TELEGRAM_BOT_TOKEN ELSE file.TELEGRAM_BOT_TOKEN,
   VITE_FRONTEND_DOMAIN |->
     IF env.VITE_FRONTEND_DOMAIN.some THEN env.VITE_FRONTEND_DOMAIN ELSE file.VITE_FRONTEND_DOMAIN]

Init ==
  /\ osEnv \in [TELEGRAM_BOT_TOKEN : OsTokens, VITE_FRONTEND_DOMAIN : OsDomains]
  /\ dotenvFile \in DotenvFiles
  /\ environ = osEnv
  /\ ip = 1
  /\ phase = "not_started"
  /\ API_TOKEN = NoSeq
  /\ FRONTEND_DOMAIN = None
  /\ defined = {}
  /\ bot = NoSeq
  /\ handlers = {}
  /\ updates = <<>>
  /\ sent = <<>>

\* --------------------------------------------------------------- helpers
RECURSIVE IndexOf(_, _, _)
\* The first index >= i of atom a in sequence s, or 0.
IndexOf(s, a, i) ==
  IF i > Len(s) THEN 0
  ELSE IF s[i] = a THEN i
  ELSE IndexOf(s, a, i + 1)

RECURSIVE LStrip(_)
\* s without its leading whitespace.
LStrip(s) == IF s # <<>> /\ Head(s) = " " THEN LStrip(Tail(s)) ELSE s

\* str.lower on the atoms used as user names.
Lower(a) == IF a = "ME" THEN "me" ELSE IF a = "Start" THEN "start" ELSE a

\* str.partition(sep) as <<before, found, after>>.
Partition(s, sep) ==
  LET k == IndexOf(s, sep, 1)
  IN IF k = 0 THEN <<s, FALSE, <<>>>>
     ELSE <<SubSeq(s, 1, k - 1), TRUE, SubSeq(s, k + 1, Len(s))>>

\* ------------------------------------------------------------ Bot(token=)
\* Bot.__init__ validates the token's shape: a str without whitespace, of
\* the form <digits>:<non-empty>. Anything else raises TokenValidationError.
TokenValidates(token) ==
  /\ token.some
  /\ IndexOf(token.val, " ", 1) = 0
  /\ LET p == Partition(token.val, ":")
     IN /\ p[2]
        /\ Len(p[1]) = 1 /\ p[1][1] \in DigitAtoms
        /\ p[3] # <<>>

TokenAuthorizedAny(token) == TRUE

\* start_polling first calls bot.me(): the platform accepts the token or
\* answers Unauthorized, which propagates out of asyncio.run(main()).
TokenAuthorized(token) == token = ValidToken

\* --------------------------------------------------- Command("start") filter
\* text.split(maxsplit=1)[0]: the first whitespace-separated word; the
\* filter rejects a text with no word at all.
FullCommand(text) ==
  LET t == LStrip(text)
      k == IndexOf(t, " ", 1)
  IN IF k = 0 THEN t ELSE SubSeq(t, 1, k - 1)

\* Command("start").__call__ on a message: the text (or, without one, the
\* caption) must be prefix "/" + "start", optionally "@" + the bot's name.
CommandStart(message) ==
  LET text == IF message.text.some /\ message.text.val # <<>>
              THEN message.text ELSE message.caption
  IN /\ text.some /\ text.val # <<>>
     /\ LET full == FullCommand(text.val)
        IN /\ full # <<>>
           /\ LET prefix == Head(full)
                  p == Partition(Tail(full), "@")
                  command == p[1]
                  mention == p[3]
              IN /\ prefix = "/"
                 /\ mention # <<>> =>
                      /\ Len(mention) = 1
                      /\ Lower(mention[1]) = Lower(BotUsername)
                 /\ command = <<"start">>

DispatchAll(update) == "cmd_start" \in handlers

\* dp.message(Command("start")): only updates of type message reach the
\* message observer, and cmd_start only those the filter accepts.
Dispatch(update) ==
  /\ "cmd_start" \in handlers
  /\ update.type = "message"
  /\ CommandStart(update)

\* ------------------------------------------------------------- cmd_start
WebAppInfoUnchecked(url) == TRUE

\* WebAppInfo(url=...) is a validated model with url: str; None is refused
\* with a ValidationError raised in the handler.
WebAppInfoValid(url) == url.some

inline_kb_two_buttons ==
  << << [text |-> "Open", web_app |-> [url |-> FRONTEND_DOMAIN.val]],
        [text |-> "Open", web_app |-> [url |-> FRONTEND_DOMAIN.val]] >> >>

inline_kb_hardcoded == << << [text |-> "Open", web_app |-> [url |-> "https://example.com"]] >> >>

\* InlineKeyboardMarkup(inline_keyboard=[[InlineKeyboardButton(...)]])
inline_kb == << << [text |-> "Open", web_app |-> [url |-> FRONTEND_DOMAIN.val]] >> >>

ReplyTextCounting == IF sent = <<>> THEN "Click the button to open the game!" ELSE "Welcome back!"

\* The first argument of message.answer.
ReplyText == "Click the button to open the game!"

AnswerChatLast(message) == IF updates = <<>> THEN message.chat ELSE updates[Len(updates)].update.chat

\* message.answer(...) sends to the chat of the message it is called on.
AnswerChat(message) == message.chat

AfterSendFailureRetry == "scheduled"

\* The send call's exception is not caught in cmd_start: the task ends.
AfterSendFailure == "raised"

TaskAtStopKept(state) == state

\* asyncio.run cancels the tasks still pending when main() returns.
TaskAtStop(state) == IF state \in {"scheduled", "awaiting"} THEN "cancelled" ELSE state

\* The index of the send call update i is waiting for.
PendingSend(i) ==
  CHOOSE j \in 1..Len(sent) : sent[j].update_id = i /\ sent[j].result = "pending"

\* ---------------------------------------------------------------- actions
\* line 8
LoadDotenv ==
  /\ phase = "not_started" /\ Stmt = "load_dotenv"
  /\ environ' = load_dotenv(environ, dotenvFile)
  /\ ip' = ip + 1
  /\ UNCHANGED <<osEnv, dotenvFile, phase, API_TOKEN, FRONTEND_DOMAIN, defined, bot,
                 handlers, updates, sent>>

\* lines 10-11
GetEnv ==
  /\ phase = "not_started" /\ Stmt = "getenv"
  /\ API_TOKEN' = environ.TELEGRAM_BOT_TOKEN
  /\ FRONTEND_DOMAIN' = environ.VITE_FRONTEND_DOMAIN
  /\ defined' = defined \cup {"API_TOKEN", "FRONTEND_DOMAIN"}
  /\ ip' = ip + 1
  /\ UNCHANGED <<osEnv, dotenvFile, environ, phase, bot, handlers, updates, sent>>

\* line 13: a name not bound yet or a token of the wrong shape raises, and
\* the import ends the process.
MakeBot ==
  /\ phase = "not_started" /\ Stmt = "Bot"
  /\ IF "API_TOKEN" \in defined /\ TokenValidates(API_TOKEN)
     THEN /\ bot' = API_TOKEN
          /\ defined' = defined \cup {"bot"}
          /\ ip' = ip + 1
          /\ phase' = phase
     ELSE /\ phase' = "stopped"
          /\ UNCHANGED <<bot, defined, ip>>
  /\ UNCHANGED <<osEnv, dotenvFile, environ, API_TOKEN, FRONTEND_DOMAIN, handlers,
                 updates, sent>>

\* line 14
MakeDispatcher ==
  /\ phase = "not_started" /\ Stmt = "Dispatcher"
  /\ defined' = defined \cup {"dp"}
  /\ ip' = ip + 1
  /\ UNCHANGED <<osEnv, dotenvFile, environ, phase, API_TOKEN, FRONTEND_DOMAIN, bot,
                 handlers, updates, sent>>

\* lines 16-17: the decorator registers cmd_start on dp.
RegisterHandler ==
  /\ phase = "not_started" /\ Stmt = "register"
  /\ IF "dp" \in defined
     THEN /\ handlers' = handlers \cup {"cmd_start"}
          /\ ip' = ip + 1
          /\ phase' = phase
     ELSE /\ phase' = "stopped"
          /\ UNCHANGED <<handlers, ip>>
  /\ UNCHANGED <<osEnv, dotenvFile, environ, API_TOKEN, FRONTEND_DOMAIN, defined, bot,
                 updates, sent>>

\* lines 26-31: asyncio.run(main()) -> dp.start_polling(bot). The first
\* request, bot.me(), fails on a token the platform refuses or on a network
\* error; the exception is not caught.
RunMain ==
  /\ phase = "not_started" /\ Stmt = "run"
  /\ \E network \in BOOLEAN :
       phase' = IF "bot" \in defined /\ "dp" \in defined
                   /\ TokenAuthorized(bot.val) /\ network
                THEN "polling" ELSE "stopped"
  /\ ip' = ip + 1
  /\ UNCHANGED <<osEnv, dotenvFile, environ, API_TOKEN, FRONTEND_DOMAIN, defined, bot,
                 handlers, updates, sent>>

\* An update arrives on the long-poll stream; the dispatcher creates the
\* handler task when a registered handler's filters accept it.
Deliver ==
  /\ phase = "polling"
  /\ Len(updates) < MaxUpdates
  /\ \E u \in Updates :
       updates' = Append(updates,
                         [update |-> u,
                          state |-> IF Dispatch(u) THEN "scheduled" ELSE "ignored"])
  /\ UNCHANGED <<osEnv, dotenvFile, environ, ip, phase, API_TOKEN, FRONTEND_DOMAIN,
                 defined, bot, handlers, sent>>

\* lines 17-24 up to the await: build the keyboard, then issue the send.
HandlerRun ==
  \E i \in 1..Len(updates) :
    /\ updates[i].state = "scheduled"
    /\ LET message == updates[i].update
       IN IF WebAppInfoValid(FRONTEND_DOMAIN)
          THEN /\ sent' = Append(sent, [update_id |-> i,
                                        chat_id |-> AnswerChat(message),
                                        text |-> ReplyText,
                                        reply_markup |-> inline_kb,
                                        result |-> "pending"])
               /\ updates' = [updates EXCEPT ![i].state = "awaiting"]
          ELSE /\ updates' = [updates EXCEPT ![i].state = "raised"]
               /\ sent' = sent
    /\ UNCHANGED <<osEnv, dotenvFile, environ, ip, phase, API_TOKEN, FRONTEND_DOMAIN,
                   defined, bot, handlers>>

\* line 24 after the await: the platform's answer to the send call.
SendComplete ==
  \E i \in 1..Len(updates), ok \in BOOLEAN :
    /\ updates[i].state = "awaiting"
    /\ sent' = [sent EXCEPT ![PendingSend(i)].result = IF ok THEN "ok" ELSE "failed"]
    /\ updates' = [updates EXCEPT ![i].state = IF ok THEN "done" ELSE AfterSendFailure]
    /\ UNCHANGED <<osEnv, dotenvFile, environ, ip, phase, API_TOKEN, FRONTEND_DOMAIN,
                   defined, bot, handlers>>

\* SIGINT / SIGTERM / kill: start_polling returns or the process dies, and
\* the event loop closes with the tasks it still holds.
Interrupt ==
  /\ phase = "polling"
  /\ phase' = "stopped"
  /\ updates' = [i \in 1..Len(updates) |->
                   [updates[i] EXCEPT !.state = TaskAtStop(updates[i].state)]]
  /\ UNCHANGED <<osEnv, dotenvFile, environ, ip, API_TOKEN, FRONTEND_DOMAIN, defined,
                 bot, handlers, sent>>

Next ==
  \/ LoadDotenv
  \/ GetEnv
  \/ MakeBot
  \/ MakeDispatcher
  \/ RegisterHandler
  \/ RunMain
  \/ Deliver
  \/ HandlerRun
  \/ SendComplete
  \/ Interrupt

Spec == Init /\ [][Next]_vars

\* ------------------------------------------------- vocabulary of the claims
\* The send calls made for update i.
SendsFor(i) == {j \in 1..Len(sent) : sent[j].update_id = i}

\* The texts that are a /start command addressed to this bot.
StartTexts == { <<"/", "start">>, <<"/", "start", " ", "arg">>, <<"/", "start", "@", "ME">> }

\* A /start command event: a message whose text, or whose caption when it
\* has no text, is a /start command.
IsStartEvent(u) ==
  /\ u.type = "message"
  /\ \/ u.text.some /\ u.text.val \in StartTexts
     \/ (~u.text.some \/ u.text.val = <<>>) /\ u.caption.some /\ u.caption.val \in StartTexts

\* The handler of update i has run up to or past its send call.
HandlerRan(i) == updates[i].state \in {"awaiting", "done", "raised"}

\* The configuration the process loads at startup.
LoadedConfig == load_dotenv(osEnv, dotenvFile)

BadToken ==
  \/ ~LoadedConfig.TELEGRAM_BOT_TOKEN.some
  \/ LoadedConfig.TELEGRAM_BOT_TOKEN.val # ValidToken

\* One send call is the fixed text with one row of one button "Open".
FixedReply(m) ==
  /\ m.text = "Click the button to open the game!"
  /\ Len(m.reply_markup) = 1
  /\ Len(m.reply_markup[1]) = 1
  /\ m.reply_markup[1][1].text = "Open"

\* ------------------------------------------------------------------ claims
\* C1 as stated: every /start event whose handler has run has exactly one
\* send call, with the fixed text and one row of one button "Open".
C1_Original ==
  \A i \in 1..Len(updates) :
    IsStartEvent(updates[i].update) /\ HandlerRan(i) =>
      /\ Cardinality(SendsFor(i)) = 1
      /\ \A j \in SendsFor(i) : FixedReply(sent[j])

\* C1 amended: a /start event never has two or more send calls; once its
\* handler has run it has exactly one when the frontend domain is set and
\* none when it is unset; every send call carries the fixed text and one
\* row of one button "Open".
C1_ExactlyOneReplyWhenDomainSet ==
  \A i \in 1..Len(updates) :
    IsStartEvent(updates[i].update) =>
      /\ Cardinality(SendsFor(i)) <= 1
      /\ HandlerRan(i) =>
           Cardinality(SendsFor(i)) = IF LoadedConfig.VITE_FRONTEND_DOMAIN.some THEN 1 ELSE 0
      /\ \A j \in SendsFor(i) : FixedReply(sent[j])

C1_Witness ==
  \E i \in 1..Len(updates) :
    /\ IsStartEvent(updates[i].update)
    /\ updates[i].state = "done"
    /\ \E j \in SendsFor(i) : sent[j].result = "ok"

\* C2 as stated: with the frontend domain unset, a /start event whose
\* handler has run still has its reply sent and the handler has not raised.
C2_Original ==
  \A i \in 1..Len(updates) :
    ~LoadedConfig.VITE_FRONTEND_DOMAIN.some /\ IsStartEvent(updates[i].update) /\ HandlerRan(i) =>
      /\ SendsFor(i) # {}
      /\ updates[i].state # "raised"

\* C2 amended: with the frontend domain unset, no send call is ever made:
\* the handler of a /start event raises while it builds the button.
C2_UnsetDomainRaisesBeforeSend ==
  ~LoadedConfig.VITE_FRONTEND_DOMAIN.some =>
    /\ sent = <<>>
    /\ \A i \in 1..Len(updates) :
         /\ updates[i].state \notin {"awaiting", "done"}
         /\ IsStartEvent(updates[i].update) => updates[i].state \in {"scheduled", "raised", "cancelled"}

C2_Witness ==
  /\ ~LoadedConfig.VITE_FRONTEND_DOMAIN.some
  /\ phase = "polling"
  /\ \E i \in 1..Len(updates) :
       IsStartEvent(updates[i].update) /\ updates[i].state = "raised"

\* C3: with a token that is unset, malformed or refused by the platform,
\* the process never polls, no update is dispatched, no handler runs and
\* no send call is made; startup ends in the stopped state.
C3_BadTokenNoHandler ==
  BadToken =>
    /\ phase \in {"not_started", "stopped"}
    /\ updates = <<>>
    /\ sent = <<>>
    /\ phase = "not_started" => Stmt # "end"

C3_Witness ==
  /\ phase = "stopped"
  /\ bot.some /\ bot.val = RevokedToken
  /\ "cmd_start" \in handlers

\* C4: an update that is not a /start command event is ignored and has no
\* send call, and the send calls never outnumber the /start events received.
C4_OnlyStartReplies ==
  /\ \A i \in 1..Len(updates) :
       ~IsStartEvent(updates[i].update) =>
         updates[i].state = "ignored" /\ SendsFor(i) = {}
  /\ Len(sent) <= Cardinality({i \in 1..Len(updates) : IsStartEvent(updates[i].update)})

C4_Witness ==
  /\ \E i \in 1..Len(updates) :
       /\ updates[i].update.type = "message"
       /\ updates[i].update.text = SomeSeq(<<"/", "help">>)
       /\ updates[i].state = "ignored"
  /\ \E i \in 1..Len(updates) : updates[i].update.type = "edited_message"
  /\ phase = "polling"

\* C5: the URL of the button of every send call is the frontend domain
\* the process loaded at startup.
C5_ButtonUrlIsConfigured ==
  \A j \in 1..Len(sent) :
    /\ LoadedConfig.VITE_FRONTEND_DOMAIN.some
    /\ \A r \in 1..Len(sent[j].reply_markup) :
         \A b \in 1..Len(sent[j].reply_markup[r]) :
           sent[j].reply_markup[r][b].web_app.url = LoadedConfig.VITE_FRONTEND_DOMAIN.val

C5_Witness ==
  /\ \E j \in 1..Len(sent) :
       sent[j].reply_markup[1][1].web_app.url = "https://game.example" /\ sent[j].result = "ok"
  /\ ~osEnv.VITE_FRONTEND_DOMAIN.some

\* C6: every send call is addressed to the chat of the update whose
\* handler made it, under every interleaving of the handler tasks.
C6_ReplyToOriginatingChat ==
  \A j \in 1..Len(sent) :
    /\ sent[j].update_id \in 1..Len(updates)
    /\ sent[j].chat_id = updates[sent[j].update_id].update.chat

C6_Witness ==
  /\ Len(sent) = 2
  /\ sent[1].update_id = 2 /\ sent[2].update_id = 1
  /\ sent[1].chat_id = 777 /\ sent[2].chat_id = 12345
  /\ sent[1].result = "pending" /\ sent[2].result = "pending"

\* A step of a handler invocation: a send call is made or answered, or a
\* handler task starts or ends.
HandlerStep ==
  \/ sent' # sent
  \/ /\ Len(updates') = Len(updates)
     /\ \E i \in 1..Len(updates) :
          /\ updates'[i].state # updates[i].state
          /\ updates'[i].state \in {"awaiting", "done", "raised"}

\* C7: the phase only moves not-started -> polling -> stopped: stopped is
\* terminal, polling is entered only from not-started, not-started is never
\* re-entered, and updates are dispatched and handlers run only in polling.
C7_Lifecycle ==
  [][ /\ phase = "stopped" => phase' = "stopped"
      /\ phase' = "polling" => phase \in {"not_started", "polling"}
      /\ phase' = "not_started" => phase = "not_started"
      /\ Len(updates') > Len(updates) => phase = "polling"
      /\ HandlerStep => phase = "polling" /\ phase' = "polling" ]_vars

C7_Witness ==
  /\ phase = "stopped"
  /\ \E i \in 1..Len(updates) : updates[i].state = "cancelled" /\ SendsFor(i) = {}
  /\ \E i \in 1..Len(updates) : updates[i].state = "cancelled" /\ SendsFor(i) # {}

\* C8: an update never has more than one send call, a failed send call
\* ends its handler, and every send call is the fixed reply, never an
\* error message.
C8_NoRetryNoErrorMessage ==
  /\ \A i \in 1..Len(updates) : Cardinality(SendsFor(i)) <= 1
  /\ \A j \in 1..Len(sent) :
       /\ sent[j].text = "Click the button to open the game!"
       /\ sent[j].result = "failed" => updates[sent[j].update_id].state = "raised"

C8_Witness ==
  \E j \in 1..Len(sent) :
    /\ sent[j].result = "failed"
    /\ updates[sent[j].update_id].state = "raised"
    /\ phase = "polling"

\* Both configuration globals are bound to the values loaded at startup.
ConfigPopulated ==
  /\ {"API_TOKEN", "FRONTEND_DOMAIN"} \subseteq defined
  /\ API_TOKEN = LoadedConfig.TELEGRAM_BOT_TOKEN
  /\ FRONTEND_DOMAIN = LoadedConfig.VITE_FRONTEND_DOMAIN

\* C9: the configuration is populated before the handler is registered
\* and before polling starts, and no step changes it afterwards.
C9_ConfigPopulatedThenImmutable ==
  /\ []("cmd_start" \in handlers \/ phase = "polling" => ConfigPopulated)
  /\ [][ConfigPopulated => config' = config /\ environ' = environ]_vars

C9_Witness ==
  /\ ConfigPopulated
  /\ phase = "stopped"
  /\ \E j \in 1..Len(sent) : sent[j].result = "failed"
  /\ \E j \in 1..Len(sent) : sent[j].result = "ok"

\* What a send call puts on the wire.
Outgoing(j) == <<sent[j].chat_id, sent[j].text, sent[j].reply_markup>>

====
